---- MODULE Spec2Model ----
(***************************************************************************)
(* The signal-scoring engine and the screening pipeline of                 *)
(* discord_stock_bot.py: analyze_stock, scan_korean_stocks,                *)
(* scan_cryptocurrencies, the report handlers and the daily scheduler.     *)
(*                                                                         *)
(* Numbers are scaled to integers: Bollinger values and the volume ratio   *)
(* are in tenths (0.2 is 2, 1.5 is 15).  A pandas not-a-number is the      *)
(* value NaN, and every comparison goes through LT/LE/GT/GE, which are     *)
(* false whenever an operand is NaN, as IEEE comparisons are.              *)
(*                                                                         *)
(* A Python exception is a value with tag "Fault" that travels up to the   *)
(* nearest try/except of the code.                                         *)
(***************************************************************************)
EXTENDS Integers, Sequences, FiniteSets, TLC

VARIABLES aPc, aArg, aRet, aRules,
          sPc, sCall, sRet, sSent,
          cPc, cKind, cIdx, cResults, cSeen, cRet,
          clock, jobs, tPending, fired, armed, readyCount

aVars == <<aPc, aArg, aRet, aRules>>
sVars == <<sPc, sCall, sRet, sSent>>
cVars == <<cPc, cKind, cIdx, cResults, cSeen, cRet>>
tVars == <<clock, jobs, tPending, fired, armed, readyCount>>
vars == <<aVars, sVars, cVars, tVars>>

(***************************************************************************)
(* Configuration (discord_stock_bot.py lines 41-54) and literals.          *)
(***************************************************************************)
STOCK_TOP_N == 10
COIN_TOP_N == 10
VOLUME_SURGE_X10 == 15
RSI_OVERSOLD == 35
MIN_BARS == 30
BB_LOW_X10 == 2
MFI_LOW == 30
MFI_HIGH == 70
TOP_SHOWN == 5
LIST_SHOWN == 10

NaN == -999

(***************************************************************************)
(* Bounds of the model.                                                    *)
(***************************************************************************)
MaxBars == 31
MaxUniverse == 3
MaxSymbols == 3
MaxLimit == 4
ReportRows == 2
NumInvocations == 2
ConcRows == 2
MaxReady == 2
MaxDay == 2

(***************************************************************************)
(* IEEE comparisons and slices.                                            *)
(***************************************************************************)
notna(x) == x # NaN
LT(a, b) == notna(a) /\ notna(b) /\ a < b
LE(a, b) == notna(a) /\ notna(b) /\ a <= b
GT(a, b) == notna(a) /\ notna(b) /\ a > b
GE(a, b) == notna(a) /\ notna(b) /\ a >= b

Min(a, b) == IF a <= b THEN a ELSE b
Max(a, b) == IF a >= b THEN a ELSE b

\* Python's s[:n]: the first n items, or all but the last -n when n < 0.
Take(s, n) ==
    IF n >= 0 THEN SubSeq(s, 1, Min(n, Len(s)))
    ELSE SubSeq(s, 1, Max(Len(s) + n, 0))

\* f"{x:.1f}" of the ratio num/den, in tenths: round half to even.
RoundTenths(num, den) ==
    LET q == (10 * num) \div den
        r == (10 * num) % den
    IN  IF 2 * r > den THEN q + 1
        ELSE IF 2 * r < den THEN q
        ELSE IF q % 2 = 0 THEN q ELSE q + 1

(***************************************************************************)
(* analyze_stock.  Its input h is what the environment answers for one     *)
(* instrument:                                                             *)
(*   fetch   the outcome of fdr.DataReader: "raise", "none" or "df"        *)
(*   bars    len(df)                                                       *)
(*   ta_rsi  the outcome of ta.momentum.rsi(data, length=period):          *)
(*           "TypeError" (the ta package names that parameter window and   *)
(*           has no parameter length) or "series"                          *)
(*   calc    "raise" when another indicator call raises on this data       *)
(*   rsi2 .. mfi1  the last two values of each indicator series            *)
(*   vol, avg      the last volume and the mean of the 29 before it        *)
(***************************************************************************)
Label(rule, kind, x10) == [rule |-> rule, kind |-> kind, x10 |-> x10]

None == [tag |-> "None", code |-> 0, name |-> 0, rsi |-> NaN,
         volume_ratio_x10 |-> 0, signals |-> <<>>, signal_count |-> 0]
Fault == [None EXCEPT !.tag = "Fault"]

\* line 64: ta.momentum.rsi(data, length=period)
calculate_rsi(h) ==
    IF h.ta_rsi = "TypeError" THEN [raised |-> TRUE, v2 |-> NaN, v1 |-> NaN]
    ELSE [raised |-> FALSE, v2 |-> h.rsi2, v1 |-> h.rsi1]

\* lines 104-107: the macd, ema, bollinger and mfi calls
other_indicators_raise(h) == h.calc = "raise"

\* line 99: df is None or len(df) < 30
too_short_noLen(h) == h.fetch = "none"
too_short(h) == h.fetch = "none" \/ h.bars < MIN_BARS

\* lines 112-113
volume_ratio_x10(h) == IF h.avg > 0 THEN RoundTenths(h.vol, h.avg) ELSE 0
volume_surges(h) == h.avg > 0 /\ 10 * h.vol >= VOLUME_SURGE_X10 * h.avg

\* lines 123-126
RsiRule(r2, r1) ==
    IF LE(r2, RSI_OVERSOLD) /\ GT(r1, RSI_OVERSOLD)
      THEN <<Label("RSI", "oversold exit", 0)>>
    ELSE IF LT(r1, RSI_OVERSOLD)
      THEN <<Label("RSI", "oversold state", 0)>>
    ELSE <<>>

\* lines 129-131
MacdRule(m2, m1) ==
    IF notna(m2) /\ notna(m1) /\ LT(m2, 0) /\ GT(m1, 0)
      THEN <<Label("MACD", "golden cross", 0)>>
    ELSE <<>>

\* lines 134-138
EmaRule_noElif(es2, el2, es1, el1) ==
    IF notna(es1) /\ notna(el1)
      THEN (IF LE(es2, el2) /\ GT(es1, el1)
              THEN <<Label("EMA", "golden cross", 0)>> ELSE <<>>)
           \o (IF GT(es1, el1)
              THEN <<Label("EMA", "uptrend", 0)>> ELSE <<>>)
    ELSE <<>>
EmaRule(es2, el2, es1, el1) ==
    IF notna(es1) /\ notna(el1)
      THEN IF LE(es2, el2) /\ GT(es1, el1)
             THEN <<Label("EMA", "golden cross", 0)>>
           ELSE IF GT(es1, el1)
             THEN <<Label("EMA", "uptrend", 0)>>
           ELSE <<>>
    ELSE <<>>

\* lines 141-143
BbRule(b2, b1) ==
    IF notna(b1) /\ LT(b2, BB_LOW_X10) /\ GE(b1, BB_LOW_X10)
      THEN <<Label("BB", "lower bounce", 0)>>
    ELSE <<>>

\* lines 146-147
VolumeRule(h) ==
    IF volume_surges(h)
      THEN <<Label("VOL", "surge", volume_ratio_x10(h))>>
    ELSE <<>>

\* lines 150-154
MfiRule(m1) ==
    IF notna(m1)
      THEN IF LT(m1, MFI_LOW) THEN <<Label("MFI", "oversold", 0)>>
           ELSE IF GT(m1, MFI_HIGH) THEN <<Label("MFI", "overbought", 0)>>
           ELSE <<>>
    ELSE <<>>

\* lines 120-154: the signal list, in the order the rules are written
detect_signals(h, rsi) ==
    RsiRule(rsi.v2, rsi.v1)
    \o MacdRule(h.macd2, h.macd1)
    \o EmaRule(h.es2, h.el2, h.es1, h.el1)
    \o BbRule(h.bb2, h.bb1)
    \o VolumeRule(h)
    \o MfiRule(h.mfi1)

\* whether control reaches the rule block (line 120)
rules_reached(h) ==
    /\ h.fetch # "raise"
    /\ ~too_short(h)
    /\ ~calculate_rsi(h).raised
    /\ ~other_indicators_raise(h)

\* lines 94-165: the body of the try
analyze_body(code, name, h) ==
    IF h.fetch = "raise" THEN Fault
    ELSE IF too_short(h) THEN None
    ELSE IF calculate_rsi(h).raised THEN Fault
    ELSE IF other_indicators_raise(h) THEN Fault
    ELSE LET rsi == calculate_rsi(h)
             signals == detect_signals(h, rsi)
         IN  [tag |-> "record", code |-> code, name |-> name,
              rsi |-> rsi.v1, volume_ratio_x10 |-> volume_ratio_x10(h),
              signals |-> signals, signal_count |-> Len(signals)]

\* lines 86-169: except Exception: return None
analyze_stock_noExcept(code, name, h) == analyze_body(code, name, h)
analyze_stock(code, name, h) ==
    LET r == analyze_body(code, name, h)
    IN  IF r.tag = "Fault" THEN None ELSE r

(***************************************************************************)
(* Inputs of the analyzer.  Quiet is a history of MIN_BARS bars on which   *)
(* no rule fires; each slice varies the inputs of one rule over its        *)
(* boundary values, and Coarse combines one firing choice of every rule.   *)
(***************************************************************************)
Quiet == [fetch |-> "df", bars |-> MIN_BARS, ta_rsi |-> "series", calc |-> "ok",
          rsi2 |-> 50, rsi1 |-> 50, macd2 |-> 1, macd1 |-> 1,
          es2 |-> 1, el2 |-> 2, es1 |-> 1, el1 |-> 2,
          bb2 |-> 5, bb1 |-> 5, vol |-> 2, avg |-> 2, mfi1 |-> 50]

RsiVals == {NaN, 30, 35, 40}
MacdVals == {NaN, -1, 0, 1}
EmaVals == {NaN, 1, 2}
BbVals == {NaN, 1, 2, 3}
MfiVals == {NaN, 20, 30, 50, 70, 80}
VolVals == {0, 2, 3, 5, 6}
AvgVals == {0, 2, 4}

FetchSlice ==
    {[Quiet EXCEPT !.fetch = f] : f \in {"raise", "none"}}
    \cup {[Quiet EXCEPT !.bars = b, !.ta_rsi = t, !.calc = c, !.rsi1 = r] :
            b \in 0..MaxBars, t \in {"TypeError", "series"},
            c \in {"ok", "raise"}, r \in {30, 50}}
RsiSlice == {[Quiet EXCEPT !.rsi2 = a, !.rsi1 = b] : a \in RsiVals, b \in RsiVals}
MacdSlice == {[Quiet EXCEPT !.macd2 = a, !.macd1 = b] : a \in MacdVals, b \in MacdVals}
EmaSlice ==
    {[Quiet EXCEPT !.es2 = a, !.el2 = b, !.es1 = c, !.el1 = d] :
        a \in EmaVals, b \in EmaVals, c \in EmaVals, d \in EmaVals}
BbSlice == {[Quiet EXCEPT !.bb2 = a, !.bb1 = b] : a \in BbVals, b \in BbVals}
VolSlice == {[Quiet EXCEPT !.vol = a, !.avg = b] : a \in VolVals, b \in AvgVals}
MfiSlice == {[Quiet EXCEPT !.mfi1 = a] : a \in MfiVals}
Coarse ==
    {[Quiet EXCEPT !.rsi2 = r[1], !.rsi1 = r[2], !.macd2 = m,
                   !.es2 = e[1], !.es1 = e[2], !.bb2 = b,
                   !.vol = v, !.mfi1 = f] :
        r \in {<<50, 50>>, <<30, 40>>, <<30, 30>>},
        m \in {1, -1},
        e \in {<<1, 1>>, <<1, 3>>, <<3, 3>>},
        b \in {5, 1},
        v \in {2, 6},
        f \in {50, 20, 80}}

AnalyzeInputs ==
    FetchSlice \cup RsiSlice \cup MacdSlice \cup EmaSlice \cup BbSlice
    \cup VolSlice \cup MfiSlice \cup Coarse

(***************************************************************************)
(* The analyzer as a state machine: one call of analyze_stock on an input  *)
(* of AnalyzeInputs.  aRules records whether the rule block was reached.   *)
(***************************************************************************)
Analyze ==
    /\ aPc = "idle"
    /\ \E h \in AnalyzeInputs :
          /\ aArg' = h
          /\ aRet' = analyze_stock(1, 1, h)
          /\ aRules' = rules_reached(h)
    /\ aPc' = "done"
    /\ UNCHANGED <<sVars, cVars, tVars>>

(***************************************************************************)
(* The screeners.  A listing row is [code, name, h]: h is the market data  *)
(* of the instrument, frozen for the length of one call.  NoCode is a row  *)
(* whose Code is empty.  A scan returns [ret, aborted, visited]: the list  *)
(* the code returns, whether the outer except ran, and the positions the   *)
(* loop iterated over.                                                     *)
(***************************************************************************)
NoCode == 0

\* line 199: analysis and analysis['signal_count'] > 0
stock_qualifies_anyCount(analysis) == analysis.tag = "record"
stock_qualifies(analysis) ==
    analysis.tag = "record" /\ analysis.signal_count > 0

\* line 242
crypto_qualifies(analysis) ==
    analysis.tag = "record" /\ analysis.signal_count > 0

\* line 200, line 243: results.append(analysis)
collect(results, analysis) == Append(results, analysis)

\* lines 187-200: one iteration of the loop over the listing
stock_visit(results, row) ==
    IF row.code = NoCode THEN [tag |-> "ok", results |-> results]
    ELSE LET analysis == analyze_stock(row.code, row.name, row.h)
         IN  IF analysis.tag = "Fault"
               THEN [tag |-> "Fault", results |-> results]
             ELSE IF stock_qualifies(analysis)
               THEN [tag |-> "ok", results |-> collect(results, analysis)]
             ELSE [tag |-> "ok", results |-> results]

RECURSIVE stock_loop(_, _, _, _)
stock_loop(rows, i, results, visited) ==
    IF i > Len(rows) THEN [tag |-> "ok", results |-> results, visited |-> visited]
    ELSE LET v == stock_visit(results, rows[i])
         IN  IF v.tag = "Fault"
               THEN [tag |-> "Fault", results |-> results,
                     visited |-> Append(visited, i)]
             ELSE stock_loop(rows, i + 1, v.results, Append(visited, i))

\* line 203: results.sort(key=signal_count, reverse=True), a stable sort
RECURSIVE SortDesc(_)
SortDesc(s) ==
    IF s = <<>> THEN <<>>
    ELSE LET t == SortDesc(SubSeq(s, 1, Len(s) - 1))
             x == s[Len(s)]
             k == Cardinality({j \in 1..Len(t) : t[j].signal_count >= x.signal_count})
         IN  SubSeq(t, 1, k) \o <<x>> \o SubSeq(t, k + 1, Len(t))

\* lines 172-209
scan_korean_stocks(listing, limit) ==
    IF listing.fault
      THEN [ret |-> <<>>, aborted |-> TRUE, visited |-> <<>>]
    ELSE LET r == stock_loop(listing.rows, 1, <<>>, <<>>)
         IN  IF r.tag = "Fault"
               THEN [ret |-> <<>>, aborted |-> TRUE, visited |-> r.visited]
             ELSE [ret |-> Take(SortDesc(r.results), limit),
                   aborted |-> FALSE, visited |-> r.visited]

\* line 238: df is None or len(df) < 30
crypto_too_short(h) == h.fetch = "none" \/ h.bars < MIN_BARS

\* lines 227-247: one iteration; the bare except swallows every fault
crypto_visit(results, code, h) ==
    IF h.fetch = "raise" THEN results
    ELSE IF crypto_too_short(h) THEN results
    ELSE LET analysis == analyze_stock(code, code, h)
         IN  IF analysis.tag = "Fault" THEN results
             ELSE IF crypto_qualifies(analysis) THEN collect(results, analysis)
             ELSE results

\* line 226: for symbol in symbols[:limit]
RECURSIVE crypto_loop(_, _, _, _, _)
crypto_loop(symbols, coins, i, results, visited) ==
    IF i > Len(symbols) THEN [results |-> results, visited |-> visited]
    ELSE crypto_loop(symbols, coins, i + 1,
                     crypto_visit(results, symbols[i], coins[symbols[i]]),
                     Append(visited, symbols[i]))

\* lines 218-222: the fixed symbol list (its first MaxSymbols entries)
symbols == [i \in 1..MaxSymbols |-> i]

\* lines 212-253
scan_cryptocurrencies(coins, limit) ==
    LET r == crypto_loop(Take(symbols, limit), coins, 1, <<>>, <<>>)
    IN  [ret |-> Take(r.results, limit), aborted |-> FALSE, visited |-> r.visited]

(***************************************************************************)
(* The report handlers.  An embed is [handler, description, fields]; a     *)
(* field is [name, codes, fallback].                                       *)
(***************************************************************************)
Field(name, codes) == [name |-> name, codes |-> codes, fallback |-> codes = <<>>]
Codes(recs) == [i \in 1..Len(recs) |-> recs[i].code]
Embed(handler, description, fields) ==
    [kind |-> "report", handler |-> handler, description |-> description,
     fields |-> fields]
Progress(handler) ==
    [kind |-> "progress", handler |-> handler, description |-> "wait",
     fields |-> <<>>]

\* lines 277-283, 385-391: a field is added only when the list is non-empty
summary_fields(stocks, cryptos) ==
    (IF stocks # <<>>
       THEN <<Field("stocks top 5", Codes(Take(stocks, TOP_SHOWN)))>> ELSE <<>>)
    \o (IF cryptos # <<>>
       THEN <<Field("cryptos top 5", Codes(Take(cryptos, TOP_SHOWN)))>> ELSE <<>>)

\* lines 263-285
scan(stocks, cryptos) ==
    <<Progress("scan"), Embed("scan", "scan time", summary_fields(stocks, cryptos))>>

\* lines 287-310
scan_stocks(stocks) ==
    <<Progress("scan_stocks"),
      IF stocks # <<>>
        THEN Embed("scan_stocks", "scan time",
                   [i \in 1..Len(Take(stocks, LIST_SHOWN)) |->
                      Field("stock", <<stocks[i].code>>)])
      ELSE Embed("scan_stocks", "no stocks to recommend", <<>>)>>

\* lines 312-333
scan_cryptos(cryptos) ==
    <<Progress("scan_cryptos"),
      IF cryptos # <<>>
        THEN Embed("scan_cryptos", "scan time",
                   [i \in 1..Len(Take(cryptos, LIST_SHOWN)) |->
                      Field("crypto", <<cryptos[i].code>>)])
      ELSE Embed("scan_cryptos", "no cryptos to recommend", <<>>)>>

\* lines 365-401: nothing is sent when the channel is not found
scheduled_scan(channel, stocks, cryptos) ==
    IF ~channel THEN <<>>
    ELSE <<Embed("scheduled_scan", "scan time", summary_fields(stocks, cryptos))>>

(***************************************************************************)
(* Inputs of the screeners: one history per outcome of analyze_stock.      *)
(***************************************************************************)
H_raise == [Quiet EXCEPT !.fetch = "raise"]
H_empty == [Quiet EXCEPT !.bars = 0, !.rsi1 = 30]
H_typeError == [Quiet EXCEPT !.ta_rsi = "TypeError", !.rsi1 = 30]
H_one == [Quiet EXCEPT !.rsi2 = 30, !.rsi1 = 40]
H_two == [H_one EXCEPT !.macd2 = -1]
H_three == [H_two EXCEPT !.vol = 6]

ScreenInputs == {H_raise, H_empty, H_typeError, Quiet, H_one, H_two, H_three}
ReportInputs == {H_empty, H_one, H_two}

RowKinds(inputs) ==
    {[nocode |-> FALSE, h |-> x] : x \in inputs} \cup {[nocode |-> TRUE, h |-> Quiet]}

ListingsOf(inputs, n) ==
    {[fault |-> FALSE,
      rows |-> [i \in 1..k |->
                  [code |-> IF f[i].nocode THEN NoCode ELSE i, name |-> i, h |-> f[i].h]]] :
        k \in {n}, f \in [1..n -> RowKinds(inputs)]}

NoListing == [fault |-> TRUE, rows |-> <<>>]
Listings ==
    {NoListing} \cup UNION {ListingsOf(ScreenInputs, n) : n \in 0..MaxUniverse}
ReportListings ==
    {NoListing} \cup UNION {ListingsOf(ReportInputs, n) : n \in 0..ReportRows}
CoinMarkets == [1..MaxSymbols -> ScreenInputs]
ReportCoins == [1..MaxSymbols -> ReportInputs]
NoCoins == [i \in 1..MaxSymbols |-> H_empty]

NotRun == [ret |-> <<>>, aborted |-> FALSE, visited |-> <<>>]
Call(fn, listing, coins, limit, channel) ==
    [fn |-> fn, listing |-> listing, coins |-> coins, limit |-> limit,
     channel |-> channel]

(***************************************************************************)
(* One call of an entry point of the pipeline, on a drawn market.          *)
(***************************************************************************)
CallScanKoreanStocks ==
    /\ sPc = "idle"
    /\ \E listing \in Listings, limit \in 0..MaxLimit :
          /\ sCall' = Call("scan_korean_stocks", listing, NoCoins, limit, TRUE)
          /\ sRet' = [stocks |-> scan_korean_stocks(listing, limit), cryptos |-> NotRun]
    /\ sSent' = <<>>
    /\ sPc' = "done"
    /\ UNCHANGED <<aVars, cVars, tVars>>

CallScanCryptocurrencies ==
    /\ sPc = "idle"
    /\ \E coins \in CoinMarkets, limit \in 0..MaxLimit :
          /\ sCall' = Call("scan_cryptocurrencies", NoListing, coins, limit, TRUE)
          /\ sRet' = [stocks |-> NotRun, cryptos |-> scan_cryptocurrencies(coins, limit)]
    /\ sSent' = <<>>
    /\ sPc' = "done"
    /\ UNCHANGED <<aVars, cVars, tVars>>

CmdScan ==
    /\ sPc = "idle"
    /\ \E listing \in ReportListings, coins \in ReportCoins :
          LET stocks == scan_korean_stocks(listing, STOCK_TOP_N)
              cryptos == scan_cryptocurrencies(coins, COIN_TOP_N)
          IN  /\ sCall' = Call("scan", listing, coins, STOCK_TOP_N, TRUE)
              /\ sRet' = [stocks |-> stocks, cryptos |-> cryptos]
              /\ sSent' = scan(stocks.ret, cryptos.ret)
    /\ sPc' = "done"
    /\ UNCHANGED <<aVars, cVars, tVars>>

CmdScanStocks ==
    /\ sPc = "idle"
    /\ \E listing \in ReportListings :
          LET stocks == scan_korean_stocks(listing, STOCK_TOP_N)
          IN  /\ sCall' = Call("scan_stocks", listing, NoCoins, STOCK_TOP_N, TRUE)
              /\ sRet' = [stocks |-> stocks, cryptos |-> NotRun]
              /\ sSent' = scan_stocks(stocks.ret)
    /\ sPc' = "done"
    /\ UNCHANGED <<aVars, cVars, tVars>>

CmdScanCryptos ==
    /\ sPc = "idle"
    /\ \E coins \in ReportCoins :
          LET cryptos == scan_cryptocurrencies(coins, COIN_TOP_N)
          IN  /\ sCall' = Call("scan_cryptos", NoListing, coins, COIN_TOP_N, TRUE)
              /\ sRet' = [stocks |-> NotRun, cryptos |-> cryptos]
              /\ sSent' = scan_cryptos(cryptos.ret)
    /\ sPc' = "done"
    /\ UNCHANGED <<aVars, cVars, tVars>>

TimerScan ==
    /\ sPc = "idle"
    /\ \E channel \in BOOLEAN, listing \in ReportListings, coins \in ReportCoins :
          LET stocks == IF channel THEN scan_korean_stocks(listing, STOCK_TOP_N)
                        ELSE NotRun
              cryptos == IF channel THEN scan_cryptocurrencies(coins, COIN_TOP_N)
                         ELSE NotRun
          IN  /\ sCall' = Call("scheduled_scan", listing, coins, STOCK_TOP_N, channel)
              /\ sRet' = [stocks |-> stocks, cryptos |-> cryptos]
              /\ sSent' = scheduled_scan(channel, stocks.ret, cryptos.ret)
    /\ sPc' = "done"
    /\ UNCHANGED <<aVars, cVars, tVars>>

(***************************************************************************)
(* Overlapping invocations of the pipeline.  Each invocation p has its own *)
(* frame: cKind (which screener), cIdx (the loop position), cResults (the  *)
(* local list results) and cRet (what it returned).  Market data is drawn  *)
(* at each visit.  The steps of different invocations interleave freely,   *)
(* which covers the one event loop the handlers run on.  cSeen[p] is the   *)
(* list of qualifying records invocation p itself obtained.                *)
(***************************************************************************)
Invocations == 1..NumInvocations
ConcInputs == {H_one, H_two}

\* lines 186, 224: results is a local of the call
bind_shared(frames, p, value) == [q \in DOMAIN frames |-> value]
bind(frames, p, value) == [frames EXCEPT ![p] = value]

Begin(p) ==
    /\ cPc[p] = "idle"
    /\ \E kind \in {"stocks", "cryptos"} : cKind' = [cKind EXCEPT ![p] = kind]
    /\ cPc' = [cPc EXCEPT ![p] = "loop"]
    /\ cIdx' = [cIdx EXCEPT ![p] = 1]
    /\ cResults' = bind(cResults, p, <<>>)
    /\ cSeen' = [cSeen EXCEPT ![p] = <<>>]
    /\ UNCHANGED <<cRet, aVars, sVars, tVars>>

VisitStock(p) ==
    /\ cPc[p] = "loop" /\ cKind[p] = "stocks" /\ cIdx[p] <= ConcRows
    /\ \E h \in ConcInputs :
          LET v == stock_visit(cResults[p], [code |-> cIdx[p], name |-> cIdx[p], h |-> h])
              w == stock_visit(cSeen[p], [code |-> cIdx[p], name |-> cIdx[p], h |-> h])
          IN  /\ cResults' = bind(cResults, p, v.results)
              /\ cSeen' = [cSeen EXCEPT ![p] = w.results]
    /\ cIdx' = [cIdx EXCEPT ![p] = @ + 1]
    /\ UNCHANGED <<cPc, cKind, cRet, aVars, sVars, tVars>>

ReturnStocks(p) ==
    /\ cPc[p] = "loop" /\ cKind[p] = "stocks" /\ cIdx[p] > ConcRows
    /\ cRet' = [cRet EXCEPT ![p] = Take(SortDesc(cResults[p]), STOCK_TOP_N)]
    /\ cPc' = [cPc EXCEPT ![p] = "done"]
    /\ UNCHANGED <<cKind, cIdx, cResults, cSeen, aVars, sVars, tVars>>

VisitCrypto(p) ==
    /\ cPc[p] = "loop" /\ cKind[p] = "cryptos"
    /\ cIdx[p] <= Len(Take(symbols, COIN_TOP_N))
    /\ \E h \in ConcInputs :
          /\ cResults' = bind(cResults, p, crypto_visit(cResults[p], cIdx[p], h))
          /\ cSeen' = [cSeen EXCEPT ![p] = crypto_visit(cSeen[p], cIdx[p], h)]
    /\ cIdx' = [cIdx EXCEPT ![p] = @ + 1]
    /\ UNCHANGED <<cPc, cKind, cRet, aVars, sVars, tVars>>

ReturnCryptos(p) ==
    /\ cPc[p] = "loop" /\ cKind[p] = "cryptos"
    /\ cIdx[p] > Len(Take(symbols, COIN_TOP_N))
    /\ cRet' = [cRet EXCEPT ![p] = Take(cResults[p], COIN_TOP_N)]
    /\ cPc' = [cPc EXCEPT ![p] = "done"]
    /\ UNCHANGED <<cKind, cIdx, cResults, cSeen, aVars, sVars, tVars>>

\* the guards of the four steps above: a started call can take a step
CanStep(p) ==
    \/ cPc[p] = "loop" /\ cKind[p] = "stocks" /\ cIdx[p] <= ConcRows
    \/ cPc[p] = "loop" /\ cKind[p] = "stocks" /\ cIdx[p] > ConcRows
    \/ cPc[p] = "loop" /\ cKind[p] = "cryptos"
          /\ cIdx[p] <= Len(Take(symbols, COIN_TOP_N))
    \/ cPc[p] = "loop" /\ cKind[p] = "cryptos"
          /\ cIdx[p] > Len(Take(symbols, COIN_TOP_N))

(***************************************************************************)
(* The daily scheduler.  clock is [day, phase]: phase "post" means the     *)
(* time of day is SCAN_HOUR:SCAN_MINUTE or later.  jobs[j] is the day of   *)
(* the next run of job j of the process-wide scheduler; tPending[t] is the *)
(* list of runnable jobs thread t took in run_pending and has not yet run; *)
(* fired[d] counts the calls of scheduled_scan on day d; armed is the set  *)
(* of days whose scan time was reached with a job registered.              *)
(***************************************************************************)
Days == 0..MaxDay

\* schedule's Job.should_run: now >= next_run
should_run(j) ==
    jobs[j] < clock.day \/ (jobs[j] = clock.day /\ clock.phase = "post")

\* schedule's next run of a daily job at a fixed time: the next such time
next_run_day == IF clock.phase = "pre" THEN clock.day ELSE clock.day + 1

RECURSIVE Ascending(_)
Ascending(S) ==
    IF S = {} THEN <<>>
    ELSE LET m == CHOOSE x \in S : \A y \in S : x <= y
         IN  <<m>> \o Ascending(S \ {m})

\* lines 256-261, 403-419: on_ready registers one more job and starts one
\* more thread
on_ready ==
    /\ readyCount < MaxReady
    /\ readyCount' = readyCount + 1
    /\ jobs' = Append(jobs, next_run_day)
    /\ tPending' = Append(tPending, <<>>)
    /\ UNCHANGED <<clock, fired, armed, aVars, sVars, cVars>>

\* line 415: run_pending collects the runnable jobs
run_pending(t) ==
    /\ tPending[t] = <<>>
    /\ \E j \in 1..Len(jobs) : should_run(j)
    /\ tPending' = [tPending EXCEPT
                      ![t] = Ascending({j \in 1..Len(jobs) : should_run(j)})]
    /\ UNCHANGED <<clock, jobs, fired, armed, readyCount, aVars, sVars, cVars>>

\* line 415: run_pending runs the next collected job: scheduled_scan is
\* called and the job is scheduled again
run_job(t) ==
    /\ tPending[t] # <<>>
    /\ fired' = [fired EXCEPT ![clock.day] = @ + 1]
    /\ jobs' = [jobs EXCEPT ![Head(tPending[t])] = next_run_day]
    /\ tPending' = [tPending EXCEPT ![t] = Tail(@)]
    /\ UNCHANGED <<clock, armed, readyCount, aVars, sVars, cVars>>

\* Time passes.  A scheduler thread polls without a pause (the sleep of line
\* 416 is never awaited), so a day does not end while a job is runnable.
Tick ==
    /\ \/ /\ clock.phase = "pre"
          /\ clock' = [clock EXCEPT !.phase = "post"]
          /\ armed' = IF jobs # <<>> THEN armed \cup {clock.day} ELSE armed
       \/ /\ clock.phase = "post" /\ clock.day < MaxDay
          /\ \A j \in 1..Len(jobs) : ~should_run(j)
          /\ \A t \in 1..Len(tPending) : tPending[t] = <<>>
          /\ clock' = [day |-> clock.day + 1, phase |-> "pre"]
          /\ armed' = armed
    /\ UNCHANGED <<jobs, tPending, fired, readyCount, aVars, sVars, cVars>>

(***************************************************************************)
(* Specifications.                                                         *)
(***************************************************************************)
IdleA == aPc = "idle" /\ aArg = Quiet /\ aRet = None /\ aRules = FALSE
IdleS ==
    /\ sPc = "idle"
    /\ sCall = Call("none", NoListing, NoCoins, 0, TRUE)
    /\ sRet = [stocks |-> NotRun, cryptos |-> NotRun]
    /\ sSent = <<>>
IdleC ==
    /\ cPc = <<>> /\ cKind = <<>> /\ cIdx = <<>>
    /\ cResults = <<>> /\ cSeen = <<>> /\ cRet = <<>>
IdleT ==
    /\ clock = [day |-> 0, phase |-> "pre"] /\ jobs = <<>> /\ tPending = <<>>
    /\ fired = [d \in Days |-> 0] /\ armed = {} /\ readyCount = 0

Init == IdleA /\ IdleS /\ IdleC /\ IdleT
Next == Analyze
Spec == Init /\ [][Next]_vars

NextScreen ==
    \/ CallScanKoreanStocks
    \/ CallScanCryptocurrencies
    \/ CmdScan
    \/ CmdScanStocks
    \/ CmdScanCryptos
    \/ TimerScan
SpecScreen == Init /\ [][NextScreen]_vars

InitConc ==
    /\ IdleA /\ IdleS /\ IdleT
    /\ cPc = [p \in Invocations |-> "idle"]
    /\ cKind = [p \in Invocations |-> "stocks"]
    /\ cIdx = [p \in Invocations |-> 1]
    /\ cResults = [p \in Invocations |-> <<>>]
    /\ cSeen = [p \in Invocations |-> <<>>]
    /\ cRet = [p \in Invocations |-> <<>>]
NextConc ==
    \E p \in Invocations :
        \/ Begin(p)
        \/ VisitStock(p)
        \/ ReturnStocks(p)
        \/ VisitCrypto(p)
        \/ ReturnCryptos(p)
SpecConc == InitConc /\ [][NextConc]_vars

NextSched ==
    \/ on_ready
    \/ \E t \in 1..Len(tPending) : run_pending(t)
    \/ \E t \in 1..Len(tPending) : run_job(t)
    \/ Tick
SpecSched == Init /\ [][NextSched]_vars

(***************************************************************************)
(* Claims about analyze_stock (specification Spec).                        *)
(***************************************************************************)
SeqRange(q) == {q[i] : i \in 1..Len(q)}
HasLabel(sigs, rule, kind) ==
    \E i \in 1..Len(sigs) : sigs[i].rule = rule /\ sigs[i].kind = kind
RuleIndex(rule) ==
    CASE rule = "RSI" -> 1 [] rule = "MACD" -> 2 [] rule = "EMA" -> 3
      [] rule = "BB" -> 4 [] rule = "VOL" -> 5 [] rule = "MFI" -> 6

\* C5: a history that is missing, empty or shorter than 30 bars makes
\* analyze_stock return None, without a fault reaching the caller, without a
\* record and without the rule block being reached.
C5_ShortHistoryIsAbsent ==
    (aPc = "done" /\ (aArg.fetch = "none" \/ (aArg.fetch = "df" /\ aArg.bars < 30)))
        => (aRet = None /\ ~aRules)

C5_Witness ==
    /\ aPc = "done" /\ aArg.fetch = "df" /\ aArg.bars = 29
    /\ aArg.ta_rsi = "series" /\ aArg.calc = "ok" /\ aArg.rsi1 = 30
    /\ aRet = None

\* No indicator value of h crosses a rule threshold (spec section 4.1).
NoCrossing(h) ==
    /\ ~(LE(h.rsi2, 35) /\ GT(h.rsi1, 35))
    /\ ~LT(h.rsi1, 35)
    /\ ~(LT(h.macd2, 0) /\ GT(h.macd1, 0))
    /\ ~GT(h.es1, h.el1)
    /\ ~(LT(h.bb2, 2) /\ GE(h.bb1, 2))
    /\ ~(h.avg > 0 /\ 10 * h.vol >= 15 * h.avg)
    /\ ~LT(h.mfi1, 30)
    /\ ~GT(h.mfi1, 70)

\* C6: on a fetched history of at least 30 bars in which nothing crosses a
\* threshold, analyze_stock returns a record with no signal and count 0: the
\* indicator calls as written complete.
C6_QuietHistoryScoresZero ==
    (/\ aPc = "done" /\ aArg.fetch = "df" /\ aArg.bars >= 30
     /\ aArg.calc = "ok" /\ NoCrossing(aArg))
        => (aRet.tag = "record" /\ aRet.signals = <<>> /\ aRet.signal_count = 0)

\* C10: one signal list never holds both labels of the RSI pair, of the EMA
\* pair or of the MFI pair; it holds at most one label per rule, in the order
\* RSI, MACD, EMA, Bollinger, volume, MFI.
C10_RuleExclusivity ==
    (aPc = "done" /\ aRet.tag = "record") =>
        LET sigs == aRet.signals
        IN  /\ ~(HasLabel(sigs, "RSI", "oversold exit")
                 /\ HasLabel(sigs, "RSI", "oversold state"))
            /\ ~(HasLabel(sigs, "EMA", "golden cross")
                 /\ HasLabel(sigs, "EMA", "uptrend"))
            /\ ~(HasLabel(sigs, "MFI", "oversold")
                 /\ HasLabel(sigs, "MFI", "overbought"))
            /\ \A i, j \in 1..Len(sigs) :
                  i < j => RuleIndex(sigs[i].rule) < RuleIndex(sigs[j].rule)
            /\ aRet.signal_count = Len(sigs)

C10_Witness ==
    /\ aPc = "done" /\ aRet.tag = "record" /\ aRet.signal_count = 6
    /\ HasLabel(aRet.signals, "RSI", "oversold exit")
    /\ HasLabel(aRet.signals, "EMA", "golden cross")
    /\ HasLabel(aRet.signals, "MFI", "oversold")

(***************************************************************************)
(* Claims about the screeners and the reports (specification SpecScreen).  *)
(***************************************************************************)
RanStocks ==
    \/ sCall.fn \in {"scan_korean_stocks", "scan", "scan_stocks"}
    \/ sCall.fn = "scheduled_scan" /\ sCall.channel
RanCryptos ==
    \/ sCall.fn \in {"scan_cryptocurrencies", "scan", "scan_cryptos"}
    \/ sCall.fn = "scheduled_scan" /\ sCall.channel

\* An unexpected fault while fetching or computing on h.
FaultsOn(h) ==
    \/ h.fetch = "raise"
    \/ h.fetch = "df" /\ h.bars >= 30 /\ (h.ta_rsi = "TypeError" \/ h.calc = "raise")
\* The analysis of h is absent.
AbsentOn(h) == FaultsOn(h) \/ h.fetch = "none" \/ h.bars < 30

StockRows == sCall.listing.rows
StockPos == {i \in 1..Len(StockRows) : StockRows[i].code # NoCode}
StockRec(i) == analyze_stock(StockRows[i].code, StockRows[i].name, StockRows[i].h)
StockQual == {i \in StockPos : StockRec(i).tag = "record" /\ StockRec(i).signal_count > 0}

CoinPos == 1..MaxSymbols
CoinRec(i) == analyze_stock(i, i, sCall.coins[i])
CoinQual == {i \in CoinPos : CoinRec(i).tag = "record" /\ CoinRec(i).signal_count > 0}

Upto(n) == [i \in 1..n |-> i]

\* C1: a fault on one instrument gives absent for that instrument only; the
\* pass is not aborted, every later instrument is visited, and the records of
\* the other instruments are in the result (unless the top-N cut drops them).
C1_FailureIsolation ==
    sPc = "done" =>
        /\ (RanStocks /\ ~sCall.listing.fault) =>
              /\ \A i \in StockPos : FaultsOn(StockRows[i].h) => StockRec(i) = None
              /\ ~sRet.stocks.aborted
              /\ sRet.stocks.visited = Upto(Len(StockRows))
              /\ \A j \in StockQual :
                    \/ StockRec(j) \in SeqRange(sRet.stocks.ret)
                    \/ /\ Len(sRet.stocks.ret) = sCall.limit
                       /\ \A r \in SeqRange(sRet.stocks.ret) :
                             r.signal_count >= StockRec(j).signal_count
        /\ RanCryptos =>
              /\ \A i \in CoinPos : FaultsOn(sCall.coins[i]) => CoinRec(i) = None
              /\ ~sRet.cryptos.aborted
              /\ sRet.cryptos.visited = Upto(Min(sCall.limit, MaxSymbols))
              /\ \A j \in CoinQual :
                    j <= sCall.limit => CoinRec(j) \in SeqRange(sRet.cryptos.ret)

C1_Witness ==
    /\ sPc = "done" /\ sCall.fn = "scan_korean_stocks" /\ ~sCall.listing.fault
    /\ Len(StockRows) = 3 /\ StockPos = {1, 2, 3}
    /\ StockRows[1].h = H_raise /\ StockRows[2].h = H_typeError
    /\ StockRows[3].h = H_two
    /\ sCall.limit = 2
    /\ sRet.stocks.ret = <<StockRec(3)>>

NonIncreasing(q) ==
    \A i, j \in 1..Len(q) : i < j => q[i].signal_count >= q[j].signal_count

\* C2: the list each screener returns has at most limit entries and is
\* sorted non-increasing by signal_count.
C2_BoundedAndSorted ==
    sPc = "done" =>
        /\ RanStocks =>
              /\ Len(sRet.stocks.ret) <= sCall.limit
              /\ NonIncreasing(sRet.stocks.ret)
        /\ RanCryptos =>
              /\ Len(sRet.cryptos.ret) <= sCall.limit
              /\ NonIncreasing(sRet.cryptos.ret)

\* C3: each screener returns exactly min(limit, Q) records, Q the number of
\* qualifying instruments of its whole universe, and leaves out no qualifying
\* instrument that beats an included one.
C3_TopN ==
    sPc = "done" =>
        /\ RanStocks =>
              /\ Len(sRet.stocks.ret) = Min(sCall.limit, Cardinality(StockQual))
              /\ \A j \in StockQual : \A r \in SeqRange(sRet.stocks.ret) :
                    StockRec(j) \notin SeqRange(sRet.stocks.ret)
                        => StockRec(j).signal_count <= r.signal_count
        /\ RanCryptos =>
              /\ Len(sRet.cryptos.ret) = Min(sCall.limit, Cardinality(CoinQual))
              /\ \A j \in CoinQual : \A r \in SeqRange(sRet.cryptos.ret) :
                    CoinRec(j) \notin SeqRange(sRet.cryptos.ret)
                        => CoinRec(j).signal_count <= r.signal_count

\* C4: no screener result holds a record with signal_count 0, nor an entry
\* for an instrument whose analysis is absent.
C4_OnlyCandidates ==
    sPc = "done" =>
        /\ \A r \in SeqRange(sRet.stocks.ret) :
              /\ r.tag = "record" /\ r.signal_count > 0 /\ r.signals # <<>>
              /\ r.code \in StockPos /\ ~AbsentOn(StockRows[r.code].h)
        /\ \A r \in SeqRange(sRet.cryptos.ret) :
              /\ r.tag = "record" /\ r.signal_count > 0 /\ r.signals # <<>>
              /\ r.code \in CoinPos /\ ~AbsentOn(sCall.coins[r.code])

C4_Witness ==
    /\ sPc = "done" /\ sCall.fn = "scan_korean_stocks"
    /\ Len(StockRows) = 3 /\ StockPos = {1, 2, 3}
    /\ StockRows[1].h = Quiet /\ StockRows[2].h = H_empty /\ StockRows[3].h = H_one
    /\ sCall.limit = 3
    /\ sRet.stocks.ret = <<StockRec(3)>>

SaysNoStocks(m) ==
    \/ m.description = "no stocks to recommend"
    \/ \E i \in 1..Len(m.fields) :
          m.fields[i].name = "stocks top 5" /\ m.fields[i].fallback
SaysNoCryptos(m) ==
    \/ m.description = "no cryptos to recommend"
    \/ \E i \in 1..Len(m.fields) :
          m.fields[i].name = "cryptos top 5" /\ m.fields[i].fallback

\* C9: on every report path, a screen that returns nothing is reported with
\* an explicit no-candidates text; a report with no candidate field and no
\* such text is never sent.
C9_ExplicitEmptyState ==
    sPc = "done" =>
        \A k \in 1..Len(sSent) :
            LET m == sSent[k]
            IN  m.kind = "report" =>
                  /\ (m.handler \in {"scan", "scan_stocks", "scheduled_scan"}
                      /\ sRet.stocks.ret = <<>>) => SaysNoStocks(m)
                  /\ (m.handler \in {"scan", "scan_cryptos", "scheduled_scan"}
                      /\ sRet.cryptos.ret = <<>>) => SaysNoCryptos(m)
                  /\ (m.fields # <<>> \/ SaysNoStocks(m) \/ SaysNoCryptos(m))

(***************************************************************************)
(* Claim about overlapping invocations (specification SpecConc).           *)
(***************************************************************************)
Finish(kind, recs) ==
    IF kind = "stocks" THEN Take(SortDesc(recs), STOCK_TOP_N)
    ELSE Take(recs, COIN_TOP_N)

\* C8: however the invocations interleave, the list an invocation builds and
\* the result it returns hold exactly the records of its own analyses, in its
\* own order: nothing of another invocation is added, removed or reordered;
\* and an invocation that has started and not returned can take its next
\* step whatever the others are doing.
C8_IndependentResults ==
    \A p \in Invocations :
        /\ cPc[p] # "idle" => cResults[p] = cSeen[p]
        /\ cPc[p] = "done" => cRet[p] = Finish(cKind[p], cSeen[p])
        /\ cPc[p] = "loop" => CanStep(p) /\ cIdx[p] <= Max(ConcRows, MaxSymbols) + 1

C8_Witness ==
    /\ cPc[1] = "done" /\ cKind[1] = "stocks" /\ Len(cRet[1]) = 2
    /\ cRet[1][1].code = 2 /\ cRet[1][2].code = 1
    /\ cPc[2] = "loop" /\ cKind[2] = "cryptos" /\ Len(cResults[2]) = 1
    /\ cIdx[2] = 2

(***************************************************************************)
(* Claim about the scheduler (specification SpecSched).                    *)
(***************************************************************************)
\* C7: whatever the number of on_ready events and scheduler threads, no day
\* sees two timer-triggered scans, and every day whose scan time was reached
\* with the bot ready, and which is over, saw one.
C7_OncePerDay ==
    \A d \in Days :
        /\ fired[d] <= 1
        /\ (d \in armed /\ clock.day > d) => fired[d] = 1

====
